---------------------------- MODULE Spec2Model ----------------------------
(***************************************************************************)
(* A model of the openapiv3 document aggregate (src/src/openapi.rs) and of *)
(* the path item traversal (src/src/paths.rs): OpenAPI::merge,             *)
(* OpenAPI::merge_overwrite, PathItem::iter / iter_mut / into_iter and     *)
(* OpenAPI::operations / get_operation / get_operation_mut.                *)
(*                                                                         *)
(* Representation.  Option<T> is a sequence of length at most one (<<>> is *)
(* None, <<v>> is Some(v)).  Vec<T> is a sequence.  IndexMap<K, V> is a    *)
(* sequence of <<key, value>> pairs with pairwise distinct keys, in        *)
(* insertion order.  RefOr<T> is a record tagged by its field "kind".      *)
(* Result<T, MergeError> is a record tagged by its field "ok".  A          *)
(* formatted message is the tuple of its pieces.                           *)
(***************************************************************************)
EXTENDS Integers, Sequences, FiniteSets, TLC

VARIABLES self, other, item, id, out

vars == <<self, other, item, id, out>>

---------------------------------------------------------------------------
(* Option, RefOr, Result *)

None == <<>>

Some(v) == <<v>>

RefReference(r) == [kind |-> "Reference", reference |-> r]

RefItem(v) == [kind |-> "Item", item |-> v]

\* RefOr::as_item / as_mut / into_item: the wrapped value in the Item state only
as_item(r) == IF r.kind = "Item" THEN Some(r.item) ELSE None

as_mut(r) == IF r.kind = "Item" THEN Some(r.item) ELSE None

into_item(r) == IF r.kind = "Item" THEN Some(r.item) ELSE None

Ok(v) == [ok |-> TRUE, val |-> v]

Err(m) == [ok |-> FALSE, msg |-> m]

\* MergeError::new(msg)
MergeError_new(msg) == Err(<<msg>>)

---------------------------------------------------------------------------
(* IndexMap *)

contains_key(m, k) == \E i \in 1..Len(m) : m[i][1] = k

Keys(m) == {m[i][1] : i \in 1..Len(m)}

index_of(m, k) == CHOOSE i \in 1..Len(m) : m[i][1] = k

get(m, k) == m[index_of(m, k)][2]

\* the map with the value at an existing key replaced in place (get_mut)
set_value(m, k, v) == [m EXCEPT ![index_of(m, k)] = <<k, v>>]

\* IndexMap::insert of a key the map does not hold: appended last
insert_new(m, k, v) == Append(m, <<k, v>>)

---------------------------------------------------------------------------
(* The three free functions of openapi.rs *)

\* a plausible slip: the servers themselves are compared, not their urls
cmp_url_whole(a, b) == a = b

\* the closure of merge (servers, document and path level): |a, b| a.url == b.url
cmp_url(a, b) == a.url = b.url

\* a plausible slip: the equality of the requirement maps themselves
cmp_security_whole(a, b) ==
    /\ Len(a) = Len(b)
    /\ \A i \in 1..Len(a) : contains_key(b, a[i][1]) /\ get(b, a[i][1]) = a[i][2]

\* the closure of merge (security): equal lengths and every key of a is a key of b
cmp_security(a, b) ==
    IF Len(a) # Len(b) THEN FALSE
    ELSE \A i \in 1..Len(a) : contains_key(b, a[i][1])

\* the closure of merge (tags): |a, b| a.name == b.name
cmp_name(a, b) == a.name = b.name

\* a call of the function pointer cmp of merge_vec
call_cmp(cmp, a, b) ==
    CASE cmp = "url" -> cmp_url(a, b)
      [] cmp = "security" -> cmp_security(a, b)
      [] cmp = "name" -> cmp_name(a, b)

\* a plausible slip: the incoming entries are all appended
merge_vec_keep_all(original, incoming, cmp) == original \o incoming

merge_vec(original, incoming, cmp) ==
    original \o SelectSeq(incoming,
        LAMBDA o : ~(\E i \in 1..Len(original) : call_cmp(cmp, o, original[i])))

merge_map(original, incoming) ==
    original \o SelectSeq(incoming, LAMBDA e : ~contains_key(original, e[1]))

\* a plausible slip: the incoming operation always replaces the slot
option_or_overwrite(original, incoming) ==
    IF incoming = None THEN original ELSE incoming

option_or(original, incoming) == IF original = None THEN incoming ELSE original

---------------------------------------------------------------------------
(* PathItem *)

\* the method names, in the order of the vec! of iter, iter_mut and into_iter
Methods == <<"get", "put", "post", "delete", "options", "head", "patch", "trace">>

MethodSet == {Methods[i] : i \in 1..Len(Methods)}

\* PathItem::default()
PathItem_default ==
    [summary |-> None, description |-> None,
     get |-> None, put |-> None, post |-> None, delete |-> None,
     options |-> None, head |-> None, patch |-> None, trace |-> None,
     servers |-> <<>>, parameters |-> <<>>, extensions |-> <<>>]

\* the slot of a path item named by a method name
slot(pi, m) ==
    CASE m = "get" -> pi.get
      [] m = "put" -> pi.put
      [] m = "post" -> pi.post
      [] m = "delete" -> pi.delete
      [] m = "options" -> pi.options
      [] m = "head" -> pi.head
      [] m = "patch" -> pi.patch
      [] m = "trace" -> pi.trace

\* filter_map over a vec of (method, Option<Operation>): the occupied entries
RECURSIVE filter_map_some(_)
filter_map_some(v) ==
    IF v = <<>> THEN <<>>
    ELSE IF Head(v)[2] = None THEN filter_map_some(Tail(v))
    ELSE <<(<<Head(v)[1], Head(v)[2][1]>>)>> \o filter_map_some(Tail(v))

\* a plausible slip: the slots listed in the order the HTTP methods are usually named
PathItem_iter_misordered(pi) ==
    filter_map_some(<<
        <<"get", pi.get>>, <<"post", pi.post>>, <<"put", pi.put>>,
        <<"delete", pi.delete>>, <<"options", pi.options>>, <<"head", pi.head>>,
        <<"patch", pi.patch>>, <<"trace", pi.trace>> >>)

PathItem_iter(pi) ==
    filter_map_some(<<
        <<"get", pi.get>>, <<"put", pi.put>>, <<"post", pi.post>>,
        <<"delete", pi.delete>>, <<"options", pi.options>>, <<"head", pi.head>>,
        <<"patch", pi.patch>>, <<"trace", pi.trace>> >>)

PathItem_iter_mut(pi) ==
    filter_map_some(<<
        <<"get", pi.get>>, <<"put", pi.put>>, <<"post", pi.post>>,
        <<"delete", pi.delete>>, <<"options", pi.options>>, <<"head", pi.head>>,
        <<"patch", pi.patch>>, <<"trace", pi.trace>> >>)

PathItem_into_iter(pi) ==
    filter_map_some(<<
        <<"get", pi.get>>, <<"put", pi.put>>, <<"post", pi.post>>,
        <<"delete", pi.delete>>, <<"options", pi.options>>, <<"head", pi.head>>,
        <<"patch", pi.patch>>, <<"trace", pi.trace>> >>)

---------------------------------------------------------------------------
(* OpenAPI::merge *)

MsgItemRefIncoming ==
    "PathItem references are not yet supported. Please opena n issue if you need this feature."

MsgItemRefSelf ==
    "PathItem references are not yet supported. Please open an issue if you need this feature."

MsgParamRef ==
    "Parameter references are not yet supported. Please open an issue if you need this feature."

ErrLength(path) ==
    Err(<<"PathItem ", path, " parameters do not have the same length">>)

ErrName(path, a, b) ==
    Err(<<"PathItem ", path, " parameter ", a, " does not have the same name as ", b>>)

\* the loop over self_item.parameters.iter_mut().zip(item.parameters), from
\* pair i on: the first error, or None
RECURSIVE zip_parameters(_, _, _, _)
zip_parameters(self_params, params, path, i) ==
    IF i > Len(self_params) \/ i > Len(params) THEN None
    ELSE LET a == as_item(self_params[i])
             b == as_item(params[i])
         IN  IF a = None THEN Some(MergeError_new(MsgParamRef))
             ELSE IF b = None THEN Some(MergeError_new(MsgParamRef))
             ELSE IF a[1].name # b[1].name
                  THEN Some(ErrName(path, a[1].name, b[1].name))
             ELSE zip_parameters(self_params, params, path, i + 1)

\* a plausible slip: the lengths are not compared, and zip stops at the
\* shorter parameter list
merge_path_item_no_length_check(self_item, incoming, path) ==
    LET e == zip_parameters(self_item.parameters, incoming.parameters, path, 1)
    IN  IF e # None THEN e[1]
        ELSE Ok([self_item EXCEPT
                 !.get = option_or(self_item.get, incoming.get),
                 !.put = option_or(self_item.put, incoming.put),
                 !.post = option_or(self_item.post, incoming.post),
                 !.delete = option_or(self_item.delete, incoming.delete),
                 !.options = option_or(self_item.options, incoming.options),
                 !.head = option_or(self_item.head, incoming.head),
                 !.patch = option_or(self_item.patch, incoming.patch),
                 !.trace = option_or(self_item.trace, incoming.trace),
                 !.servers = merge_vec(self_item.servers, incoming.servers, "url"),
                 !.extensions = merge_map(self_item.extensions, incoming.extensions)])

\* the branch of the loop of merge for a path both documents hold, both inline:
\* the merged path item, or the error
merge_path_item(self_item, incoming, path) ==
    LET merged ==
            [self_item EXCEPT
                !.get = option_or(self_item.get, incoming.get),
                !.put = option_or(self_item.put, incoming.put),
                !.post = option_or(self_item.post, incoming.post),
                !.delete = option_or(self_item.delete, incoming.delete),
                !.options = option_or(self_item.options, incoming.options),
                !.head = option_or(self_item.head, incoming.head),
                !.patch = option_or(self_item.patch, incoming.patch),
                !.trace = option_or(self_item.trace, incoming.trace),
                !.servers = merge_vec(self_item.servers, incoming.servers, "url"),
                !.extensions = merge_map(self_item.extensions, incoming.extensions)]
    IN  IF Len(self_item.parameters) # Len(incoming.parameters) THEN ErrLength(path)
        ELSE LET e == zip_parameters(self_item.parameters, incoming.parameters, path, 1)
             IN  IF e # None THEN e[1] ELSE Ok(merged)

\* the loop `for (path, item) in other.paths` of merge, from entry i on: the
\* path map of self after the loop, or the error that ends merge
RECURSIVE merge_paths(_, _, _)
merge_paths(self_paths, other_paths, i) ==
    IF i > Len(other_paths) THEN Ok(self_paths)
    ELSE LET path == other_paths[i][1]
             incoming == into_item(other_paths[i][2])
         IN  IF incoming = None THEN MergeError_new(MsgItemRefIncoming)
             ELSE IF contains_key(self_paths, path)
             THEN LET self_item == as_mut(get(self_paths, path))
                  IN  IF self_item = None THEN MergeError_new(MsgItemRefSelf)
                      ELSE LET r == merge_path_item(self_item[1], incoming[1], path)
                           IN  IF ~r.ok THEN r
                               ELSE merge_paths(
                                        set_value(self_paths, path, RefItem(r.val)),
                                        other_paths, i + 1)
             ELSE merge_paths(insert_new(self_paths, path, RefItem(incoming[1])),
                              other_paths, i + 1)

\* the match on self.external_docs of merge
merge_external_docs(mine, theirs) ==
    IF mine # None
    THEN IF theirs # None
         THEN Some([mine[1] EXCEPT
                  !.extensions = merge_map(mine[1].extensions, theirs[1].extensions)])
         ELSE mine
    ELSE theirs

merge_components(mine, theirs) ==
    [extensions |-> merge_map(mine.extensions, theirs.extensions),
     schemas |-> merge_map(mine.schemas, theirs.schemas),
     responses |-> merge_map(mine.responses, theirs.responses),
     parameters |-> merge_map(mine.parameters, theirs.parameters),
     examples |-> merge_map(mine.examples, theirs.examples),
     request_bodies |-> merge_map(mine.request_bodies, theirs.request_bodies),
     headers |-> merge_map(mine.headers, theirs.headers),
     security_schemes |-> merge_map(mine.security_schemes, theirs.security_schemes),
     links |-> merge_map(mine.links, theirs.links),
     callbacks |-> merge_map(mine.callbacks, theirs.callbacks)]

\* OpenAPI::merge(self, other)
merge(a, b) ==
    LET p == merge_paths(a.paths.paths, b.paths.paths, 1)
    IN  IF ~p.ok THEN p
        ELSE Ok([openapi |-> a.openapi,
                 info |-> [a.info EXCEPT
                     !.extensions = merge_map(a.info.extensions, b.info.extensions)],
                 servers |-> merge_vec(a.servers, b.servers, "url"),
                 paths |-> [paths |-> p.val, extensions |-> a.paths.extensions],
                 components |-> merge_components(a.components, b.components),
                 security |-> merge_vec(a.security, b.security, "security"),
                 tags |-> merge_vec(a.tags, b.tags, "name"),
                 external_docs |-> merge_external_docs(a.external_docs, b.external_docs),
                 extensions |-> merge_map(a.extensions, b.extensions)])

\* a plausible slip: the operands are not swapped
merge_overwrite_unswapped(a, b) == merge(a, b)

\* OpenAPI::merge_overwrite(self, other)
merge_overwrite(a, b) == merge(b, a)

---------------------------------------------------------------------------
(* OpenAPI::operations, operations_mut, get_operation, get_operation_mut *)

\* flat_map of operations(): the tuples of one path entry (none for a reference)
operations_of_entry(e) ==
    LET i == as_item(e[2])
    IN  IF i = None THEN <<>>
        ELSE LET ops == PathItem_iter(i[1])
             IN  [k \in 1..Len(ops) |-> <<e[1], ops[k][1], ops[k][2], i[1]>>]

\* flat_map of operations_mut(): the tuples of one path entry
operations_mut_of_entry(e) ==
    LET i == as_mut(e[2])
    IN  IF i = None THEN <<>>
        ELSE LET ops == PathItem_iter_mut(i[1])
             IN  [k \in 1..Len(ops) |-> <<e[1], ops[k][1], ops[k][2]>>]

\* OpenAPI::operations(): (path, method, operation, path item), from path n on
RECURSIVE operations_from(_, _)
operations_from(paths, n) ==
    IF n > Len(paths) THEN <<>>
    ELSE operations_of_entry(paths[n]) \o operations_from(paths, n + 1)

operations(d) == operations_from(d.paths.paths, 1)

\* OpenAPI::operations_mut(): (path, method, operation), from path n on
RECURSIVE operations_mut_from(_, _)
operations_mut_from(paths, n) ==
    IF n > Len(paths) THEN <<>>
    ELSE operations_mut_of_entry(paths[n]) \o operations_mut_from(paths, n + 1)

operations_mut(d) == operations_mut_from(d.paths.paths, 1)

\* the outcomes of a lookup: a returned Option, or the panic of unwrap()
Return(v) == [kind |-> "Return", val |-> v]

Panic == [kind |-> "Panic"]

\* a plausible slip: the scan keeps the last match (rfind)
RECURSIVE find_last(_, _, _)
find_last(ops, operation_id, n) ==
    IF n > Len(ops) THEN Return(None)
    ELSE IF ops[n][3].operation_id = None THEN Panic
    ELSE LET rest == find_last(ops, operation_id, n + 1)
         IN  IF rest = Panic \/ rest.val # None THEN rest
             ELSE IF ops[n][3].operation_id[1] = operation_id
                  THEN Return(Some(ops[n])) ELSE rest

\* Iterator::find with the closure op.operation_id.as_ref().unwrap() == operation_id,
\* from tuple n on: the tuples are visited in order and the scan ends at the
\* first match; unwrap() panics at a visited operation without operationId
RECURSIVE find(_, _, _)
find(ops, operation_id, n) ==
    IF n > Len(ops) THEN Return(None)
    ELSE IF ops[n][3].operation_id = None THEN Panic
    ELSE IF ops[n][3].operation_id[1] = operation_id THEN Return(Some(ops[n]))
    ELSE find(ops, operation_id, n + 1)

\* OpenAPI::get_operation: .map(|(_, _, op, item)| (op, item))
get_operation(d, operation_id) ==
    LET f == find(operations(d), operation_id, 1)
    IN  IF f = Panic \/ f.val = None THEN f
        ELSE Return(Some(<<f.val[1][3], f.val[1][4]>>))

\* OpenAPI::get_operation_mut: .map(|(_, _, op)| op)
get_operation_mut(d, operation_id) ==
    LET f == find(operations_mut(d), operation_id, 1)
    IN  IF f = Panic \/ f.val = None THEN f
        ELSE Return(Some(f.val[1][3]))

---------------------------------------------------------------------------
(* The documents the operations are applied to *)

\* the longest Vec (servers, tags, security requirements, parameters) drawn
MaxLen == 2

\* the largest number of occupied method slots of a drawn path item
MaxOps == 2

SeqsUpTo(S, n) == UNION {[1..k -> S] : k \in 0..n}

\* the IndexMaps with at most two entries, keys from K, values from V
IndexMaps(K, V) ==
    {<<>>} \cup {<< <<k, v>> >> : k \in K, v \in V}
           \cup {<< <<k[1], v[1]>>, <<k[2], v[2]>> >> :
                    k \in {q \in K \X K : q[1] # q[2]}, v \in V \X V}

Urls == {"http://localhost", "http://example.com"}

TagNames == {"pet", "store"}

SchemeKeys == {"api_key", "oauth"}

ExtKeys == {"x-a", "x-b"}

PathKeys == {"/pets", "/users"}

ParamNames == {"limit", "offset"}

Server(url, w) == [url |-> url, description |-> Some(w)]

Tag(name, w) == [name |-> name, description |-> Some(w)]

Parameter(name, w) == [name |-> name, description |-> Some(w)]

Operation(operation_id, summary, description) ==
    [operation_id |-> operation_id, summary |-> summary, description |-> description]

Components_default ==
    [extensions |-> <<>>, schemas |-> <<>>, responses |-> <<>>, parameters |-> <<>>,
     examples |-> <<>>, request_bodies |-> <<>>, headers |-> <<>>,
     security_schemes |-> <<>>, links |-> <<>>, callbacks |-> <<>>]

\* OpenAPI::default()
OpenAPI_default ==
    [openapi |-> "3.0.3",
     info |-> [title |-> "", extensions |-> <<>>],
     servers |-> <<>>,
     paths |-> [paths |-> <<>>, extensions |-> <<>>],
     components |-> Components_default,
     security |-> <<>>,
     tags |-> <<>>,
     external_docs |-> None,
     extensions |-> <<>>]

\* the default document of the author w (w marks every value drawn for it)
Base(w) == [OpenAPI_default EXCEPT !.info.title = w]

ServerLists(w) == SeqsUpTo({Server(u, w) : u \in Urls}, MaxLen)

TagLists(w) == SeqsUpTo({Tag(n, w) : n \in TagNames}, MaxLen)

\* a SecurityRequirement is an IndexMap from scheme name to scope list
Requirements(w) == IndexMaps(SchemeKeys, {<<w>>})

SecurityLists(w) == SeqsUpTo(Requirements(w), MaxLen)

ExtMaps(w) == IndexMaps(ExtKeys, {w})

ExternalDocs(w) ==
    {None} \cup {Some([url |-> w, extensions |-> e]) : e \in ExtMaps(w)}

ParameterLists(w) ==
    SeqsUpTo({RefItem(Parameter(n, w)) : n \in ParamNames}
                 \cup {RefReference("#/components/parameters/p")}, MaxLen)

\* the path item of author w whose occupied slots are the methods of ms
ItemWithOps(w, ms) ==
    [m \in DOMAIN PathItem_default |->
        IF m \in ms THEN Some(Operation(Some(m), Some(w), None))
        ELSE IF m = "summary" THEN Some(w)
        ELSE PathItem_default[m]]

SlotSets == {ms \in SUBSET MethodSet : Cardinality(ms) <= MaxOps}

DocsServers(w) == {[Base(w) EXCEPT !.servers = s] : s \in ServerLists(w)}

DocsTags(w) == {[Base(w) EXCEPT !.tags = t] : t \in TagLists(w)}

DocsSecurity(w) == {[Base(w) EXCEPT !.security = s] : s \in SecurityLists(w)}

DocsExtensions(w) ==
    {[Base(w) EXCEPT !.info.extensions = e] : e \in ExtMaps(w)}
    \cup {[Base(w) EXCEPT !.paths.extensions = e] : e \in ExtMaps(w)}
    \cup {[Base(w) EXCEPT !.components.extensions = e] : e \in ExtMaps(w)}
    \cup {[Base(w) EXCEPT !.extensions = e] : e \in ExtMaps(w)}
    \cup {[Base(w) EXCEPT !.external_docs = d] : d \in ExternalDocs(w)}
    \cup {[Base(w) EXCEPT !.info.extensions = e, !.paths.extensions = e,
                          !.components.extensions = e, !.extensions = e,
                          !.external_docs = Some([url |-> w, extensions |-> e])] :
             e \in ExtMaps(w)}

ComponentMaps(w) == IndexMaps({"Pet", "Error"}, {RefItem(w)})

DocsComponents(w) ==
    {[Base(w) EXCEPT !.components.schemas = c] : c \in ComponentMaps(w)}
    \cup {[Base(w) EXCEPT !.components.responses = c, !.components.parameters = c,
                          !.components.examples = c, !.components.request_bodies = c,
                          !.components.headers = c, !.components.security_schemes = c,
                          !.components.links = c, !.components.callbacks = c] :
             c \in ComponentMaps(w)}

\* the entries of the path maps of DocsPaths
PathEntries(w) ==
    {RefReference("#/components/pathItems/p"),
     RefItem(ItemWithOps(w, {})),
     RefItem([ItemWithOps(w, {"get"}) EXCEPT
                  !.parameters = <<RefItem(Parameter("limit", w))>>]),
     RefItem([ItemWithOps(w, {"post"}) EXCEPT
                  !.parameters = <<RefItem(Parameter("offset", w))>>])}

DocsPaths(w) ==
    {[Base(w) EXCEPT !.paths.paths = p] : p \in IndexMaps(PathKeys, PathEntries(w))}

\* one path, "/pets", with the given inline path item
DocWithItem(w, pi) == [Base(w) EXCEPT !.paths.paths = << <<"/pets", RefItem(pi)>> >>]

DocsSlots(w) == {DocWithItem(w, ItemWithOps(w, ms)) : ms \in SlotSets}

DocsParameters(w) ==
    {DocWithItem(w, [ItemWithOps(w, {}) EXCEPT !.parameters = ps]) :
        ps \in ParameterLists(w)}

DocsItemFields(w) ==
    {DocWithItem(w, [ItemWithOps(w, {}) EXCEPT !.servers = s]) : s \in ServerLists(w)}
    \cup {DocWithItem(w, [ItemWithOps(w, {}) EXCEPT !.extensions = e]) :
             e \in ExtMaps(w)}

\* documents in which several fields are populated at once
DocsMixed(w) ==
    {[Base(w) EXCEPT
         !.servers = s, !.tags = t, !.security = q, !.extensions = e,
         !.paths.paths = p] :
       s \in {<<>>, <<Server("http://localhost", w)>>},
       t \in {<<>>, <<Tag("pet", w)>>},
       q \in {<<>>, << << <<"api_key", <<w>> >> >> >>},
       e \in {<<>>, << <<"x-a", w>> >>},
       p \in {<<>>,
              << <<"/pets", RefItem(ItemWithOps(w, {IF w = "A" THEN "get" ELSE "post"}))>> >>,
              << <<"/pets", RefReference("#/components/pathItems/p")>> >>}}

\* a family of documents: the pairs (A, B) of the two authors, and the pairs (A, A)
Pairs(SA, SB) == (SA \X SB) \cup {<<a, a>> : a \in SA}

MergePairs ==
    Pairs(DocsServers("A"), DocsServers("B"))
    \cup Pairs(DocsTags("A"), DocsTags("B"))
    \cup Pairs(DocsSecurity("A"), DocsSecurity("B"))
    \cup Pairs(DocsExtensions("A"), DocsExtensions("B"))
    \cup Pairs(DocsComponents("A"), DocsComponents("B"))
    \cup Pairs(DocsPaths("A"), DocsPaths("B"))
    \cup Pairs(DocsSlots("A"), DocsSlots("B"))
    \cup Pairs(DocsParameters("A"), DocsParameters("B"))
    \cup Pairs(DocsItemFields("A"), DocsItemFields("B"))
    \cup Pairs(DocsMixed("A"), DocsMixed("B"))

---------------------------------------------------------------------------
(* The state machine *)

OpNames ==
    {"merge", "merge_overwrite", "iter", "iter_mut", "into_iter",
     "get_operation", "get_operation_mut"}

NothingDone == [o \in OpNames |-> None]

\* the pairs of DocsPaths over the same paths (every path is shared)
SamePathsPairs ==
    {p \in Pairs(DocsPaths("A"), DocsPaths("B")) :
        Keys(p[1].paths.paths) = Keys(p[2].paths.paths)}

InitMerge ==
    /\ \/ \E p \in SamePathsPairs : self = p[1] /\ other = p[2]
       \/ \E p \in MergePairs : self = p[1] /\ other = p[2]
    /\ item = PathItem_default
    /\ id = ""
    /\ out = NothingDone

\* self.merge(other)
Merge ==
    /\ out' = [out EXCEPT !["merge"] = Some(merge(self, other))]
    /\ UNCHANGED <<self, other, item, id>>

\* self.merge_overwrite(other)
MergeOverwrite ==
    /\ out' = [out EXCEPT !["merge_overwrite"] = Some(merge_overwrite(self, other))]
    /\ UNCHANGED <<self, other, item, id>>

NextMerge == Merge \/ MergeOverwrite

SpecMerge == InitMerge /\ [][NextMerge]_vars

\* the path items traversed: every set of occupied slots, each slot with an
\* operation of its own
TraversedItems == {ItemWithOps("A", ms) : ms \in SUBSET MethodSet}

InitIter ==
    /\ self = OpenAPI_default
    /\ other = OpenAPI_default
    /\ item \in TraversedItems
    /\ id = ""
    /\ out = NothingDone

\* item.iter().collect()
Iter ==
    /\ out' = [out EXCEPT !["iter"] = Some(PathItem_iter(item))]
    /\ UNCHANGED <<self, other, item, id>>

\* item.iter_mut().collect()
IterMut ==
    /\ out' = [out EXCEPT !["iter_mut"] = Some(PathItem_iter_mut(item))]
    /\ UNCHANGED <<self, other, item, id>>

\* item.clone().into_iter().collect()
IntoIter ==
    /\ out' = [out EXCEPT !["into_iter"] = Some(PathItem_into_iter(item))]
    /\ UNCHANGED <<self, other, item, id>>

NextIter == Iter \/ IterMut \/ IntoIter

SpecIter == InitIter /\ [][NextIter]_vars

\* the documents searched: the two paths in either order, each a reference or
\* inline, with at most MaxOps operations in all; an operation carries one of
\* two operationIds or none, and its summary and description name its place
OperationIds == {Some("listPets"), Some("createPet"), None}

LookupIds == {"listPets", "createPet", "deletePet"}

Places == PathKeys \X MethodSet

LookupDoc(order, refs, f) ==
    [OpenAPI_default EXCEPT !.paths.paths =
        [n \in 1..Len(order) |->
            <<order[n],
              IF order[n] \in refs THEN RefReference("#/components/pathItems/p")
              ELSE RefItem([m \in DOMAIN PathItem_default |->
                       IF <<order[n], m>> \in DOMAIN f
                       THEN Some(Operation(f[<<order[n], m>>], Some(order[n]), Some(m)))
                       ELSE PathItem_default[m]])>>]]

LookupDocs ==
    {LookupDoc(order, refs, f) :
        order \in {<<"/users", "/pets">>, <<"/pets", "/users">>},
        refs \in SUBSET PathKeys,
        f \in UNION {[ps -> OperationIds] :
                        ps \in {q \in SUBSET Places : Cardinality(q) <= MaxOps}}}

InitLookup ==
    /\ self \in LookupDocs
    /\ other = OpenAPI_default
    /\ item = PathItem_default
    /\ id \in LookupIds
    /\ out = NothingDone

\* self.get_operation(id)
GetOperation ==
    /\ out' = [out EXCEPT !["get_operation"] = Some(get_operation(self, id))]
    /\ UNCHANGED <<self, other, item, id>>

\* self.get_operation_mut(id)
GetOperationMut ==
    /\ out' = [out EXCEPT !["get_operation_mut"] = Some(get_operation_mut(self, id))]
    /\ UNCHANGED <<self, other, item, id>>

NextLookup == GetOperation \/ GetOperationMut

SpecLookup == InitLookup /\ [][NextLookup]_vars

---------------------------------------------------------------------------
(* Vocabulary of the properties of merge *)

Done(op) == out[op] # None

Ret(op) == out[op][1]

APaths == self.paths.paths

BPaths == other.paths.paths

IsRef(e) == e.kind = "Reference"

Shared(p) == contains_key(APaths, p) /\ contains_key(BPaths, p)

\* the subsequence of s at the indices of idx, in increasing order
Pick(s, idx) ==
    [j \in 1..Cardinality(idx) |->
        s[CHOOSE i \in idx : Cardinality({k \in idx : k <= i}) = j]]

\* how many servers of s have the url u
CountUrl(s, u) == Cardinality({i \in 1..Len(s) : s[i].url = u})

UrlsOf(s) == {s[i].url : i \in 1..Len(s)}

\* r is the union by key of a and b, with the value of a at the keys of both
IsUnion(r, a, b) ==
    /\ Len(r) = Cardinality(Keys(r))
    /\ Keys(r) = Keys(a) \cup Keys(b)
    /\ \A k \in Keys(a) : get(r, k) = get(a, k)
    /\ \A k \in Keys(b) \ Keys(a) : get(r, k) = get(b, k)

\* two parameter lists of a shared path that merge rejects
ParamsFail(x, y) ==
    \/ Len(x) # Len(y)
    \/ \E i \in 1..Len(x) :
          IsRef(x[i]) \/ IsRef(y[i]) \/ x[i].item.name # y[i].item.name

\* the j-th path of incoming is shared, inline on both sides, and its parameter
\* lists differ in length
Mismatch(j) ==
    LET p == BPaths[j][1] IN
    /\ contains_key(APaths, p)
    /\ ~IsRef(BPaths[j][2]) /\ ~IsRef(get(APaths, p))
    /\ Len(get(APaths, p).item.parameters) # Len(BPaths[j][2].item.parameters)

\* the j-th path of incoming is shared and violates a rule of the shared paths
SharedFails(j) ==
    LET p == BPaths[j][1] IN
    /\ contains_key(APaths, p)
    /\ \/ IsRef(BPaths[j][2])
       \/ IsRef(get(APaths, p))
       \/ ParamsFail(get(APaths, p).item.parameters, BPaths[j][2].item.parameters)

\* the j-th path of incoming ends merge with an error
Fails(j) == IsRef(BPaths[j][2]) \/ SharedFails(j)

\* no path entry and no path-level parameter of document d is a reference
NoReferences(d) ==
    \A i \in 1..Len(d.paths.paths) :
        LET e == d.paths.paths[i][2] IN
        /\ ~IsRef(e)
        /\ \A k \in 1..Len(e.item.parameters) : ~IsRef(e.item.parameters[k])

---------------------------------------------------------------------------
(* C1 *)

\* C1 as stated: for every document A, merge(A, A) succeeds and returns a
\* document equal to A.
C1_SelfMergeAlways ==
    (Done("merge") /\ self = other) => Ret("merge") = Ok(self)

\* C1, amended: merge(A, A) succeeds and returns a document equal to A, field
\* by field and in the same order, for every document A that holds no
\* reference path item and no reference path-level parameter; for every other
\* document A, merge(A, A) fails.
C1_SelfMerge ==
    (Done("merge") /\ self = other) =>
        IF NoReferences(self) THEN Ret("merge") = Ok(self) ELSE ~Ret("merge").ok

C1_Witness ==
    /\ Done("merge") /\ self = other /\ NoReferences(self)
    /\ self.servers # <<>> /\ self.tags # <<>> /\ self.security # <<>>
    /\ APaths # <<>> /\ self.extensions # <<>>
    /\ Ret("merge") = Ok(self)

---------------------------------------------------------------------------
(* C2 *)

\* the servers of A come first, in A's order, and the servers of B whose url
\* no server of A has follow them, in B's order; the others of B are dropped
ServersUnion(r) ==
    r = self.servers
        \o Pick(other.servers,
                {i \in 1..Len(other.servers) :
                    other.servers[i].url \notin UrlsOf(self.servers)})

\* C2 as stated: the servers of merge(A, B) are those of A followed by those
\* of B with a url new to A, and no url occurs twice among them.
C2_ServersNoUrlTwice ==
    (Done("merge") /\ Ret("merge").ok) =>
        LET r == Ret("merge").val.servers IN
        /\ ServersUnion(r)
        /\ \A i, j \in 1..Len(r) : r[i].url = r[j].url => i = j

\* C2, amended: the servers of merge(A, B) are those of A, in A's order,
\* followed by those of B whose url is the url of no server of A, in B's
\* order; B's other servers are dropped; and a url occurs in the result as
\* often as it occurs in A when A has it, and as often as it occurs in B
\* otherwise (so twice only where A alone or B alone already held it twice).
C2_Servers ==
    (Done("merge") /\ Ret("merge").ok) =>
        LET r == Ret("merge").val.servers IN
        /\ ServersUnion(r)
        /\ \A u \in UrlsOf(r) :
              CountUrl(r, u) =
                  IF u \in UrlsOf(self.servers)
                  THEN CountUrl(self.servers, u)
                  ELSE CountUrl(other.servers, u)

C2_Witness ==
    /\ Done("merge") /\ Ret("merge").ok
    /\ self.servers # <<>>
    /\ \E i \in 1..Len(other.servers) :
          /\ other.servers[i].url \in UrlsOf(self.servers)
          /\ other.servers[i] \notin {self.servers[k] : k \in 1..Len(self.servers)}
    /\ \E i \in 1..Len(other.servers) :
          other.servers[i].url \notin UrlsOf(self.servers)
    /\ Len(Ret("merge").val.servers) = Len(self.servers) + 1

---------------------------------------------------------------------------
(* C3 *)

\* C3 as stated: when A and B share a path whose parameter lists differ in
\* length, merge(A, B) is an error, and that error is the length mismatch.
C3_LengthMismatchAlways ==
    (Done("merge") /\ \E j \in 1..Len(BPaths) : Mismatch(j)) =>
        /\ ~Ret("merge").ok
        /\ \E j \in 1..Len(BPaths) :
              Mismatch(j) /\ Ret("merge") = ErrLength(BPaths[j][1])

\* C3, amended: when A and B share a path whose parameter lists differ in
\* length, merge(A, B) is an error and returns no document; the error is the
\* length mismatch of that path when no path before it in incoming's order
\* ends the merge (being a reference in incoming, or shared and a reference in
\* original, or shared with parameter lists that differ in length, hold a
\* reference or differ in a name).
C3_LengthMismatch ==
    (Done("merge") /\ \E j \in 1..Len(BPaths) : Mismatch(j)) =>
        /\ ~Ret("merge").ok
        /\ \A j \in 1..Len(BPaths) :
              (Mismatch(j) /\ \A k \in 1..(j - 1) : ~Fails(k)) =>
                  Ret("merge") = ErrLength(BPaths[j][1])

C3_Witness ==
    /\ Done("merge")
    /\ Len(BPaths) = 2 /\ Len(APaths) = 2
    /\ ~Fails(1) /\ Mismatch(2)
    /\ Ret("merge") = ErrLength(BPaths[2][1])

---------------------------------------------------------------------------
(* C4 *)

\* C4 as stated: the paths of incoming alone are appended to the paths of
\* original, in incoming's order and unchanged; and merge succeeds unless a
\* shared path breaks a rule: a reference at a path of one document alone
\* does not make it fail.
C4_PathUnion ==
    Done("merge") =>
        /\ Ret("merge").ok =>
              LET r == Ret("merge").val.paths.paths IN
              /\ Len(r) >= Len(APaths)
              /\ \A i \in 1..Len(APaths) : r[i][1] = APaths[i][1]
              /\ SubSeq(r, Len(APaths) + 1, Len(r)) =
                     Pick(BPaths, {j \in 1..Len(BPaths) :
                                      ~contains_key(APaths, BPaths[j][1])})
        /\ (\A j \in 1..Len(BPaths) : ~SharedFails(j)) => Ret("merge").ok

---------------------------------------------------------------------------
(* C5 *)

\* C5 as stated: after a successful merge every extension carrier that both
\* documents hold (document, info, Paths, components, shared inline path
\* items, externalDocs of both) is the union by key of the two carriers, with
\* original's value at the keys of both.
C5_ExtensionsUnion ==
    (Done("merge") /\ Ret("merge").ok) =>
        LET r == Ret("merge").val IN
        /\ IsUnion(r.extensions, self.extensions, other.extensions)
        /\ IsUnion(r.info.extensions, self.info.extensions, other.info.extensions)
        /\ IsUnion(r.paths.extensions, self.paths.extensions, other.paths.extensions)
        /\ IsUnion(r.components.extensions, self.components.extensions,
                   other.components.extensions)
        /\ \A p \in PathKeys :
              Shared(p) =>
                  IsUnion(get(r.paths.paths, p).item.extensions,
                          get(APaths, p).item.extensions,
                          get(BPaths, p).item.extensions)
        /\ (self.external_docs # None /\ other.external_docs # None) =>
              /\ r.external_docs # None
              /\ IsUnion(r.external_docs[1].extensions,
                         self.external_docs[1].extensions,
                         other.external_docs[1].extensions)

---------------------------------------------------------------------------
(* C6 *)

\* C6: merge_overwrite(A, B) is the outcome of merge(B, A): the same document
\* when that succeeds, the same error when it fails.
C6_MergeOverwrite ==
    Done("merge_overwrite") => Ret("merge_overwrite") = merge(other, self)

C6_Witness ==
    /\ Done("merge_overwrite") /\ Done("merge")
    /\ Ret("merge_overwrite").ok /\ Ret("merge").ok
    /\ Ret("merge_overwrite") # Ret("merge")
    /\ Ret("merge_overwrite").val.info.title = other.info.title
    /\ self.servers # <<>> /\ other.servers # <<>>

C6_WitnessError ==
    /\ Done("merge_overwrite") /\ Done("merge")
    /\ Ret("merge") = MergeError_new(MsgItemRefIncoming)
    /\ Ret("merge_overwrite") = MergeError_new(MsgItemRefSelf)

---------------------------------------------------------------------------
(* C7 *)

\* C7: the security requirements of merge(original, incoming) are those of
\* original, unchanged, followed in incoming's order by the requirements of
\* incoming whose set of scheme keys is the key set of no requirement of
\* original; an incoming requirement is dropped exactly when original holds
\* one with the same key set, whatever the scope lists.
C7_Security ==
    (Done("merge") /\ Ret("merge").ok) =>
        Ret("merge").val.security =
            self.security
                \o Pick(other.security,
                        {i \in 1..Len(other.security) :
                            ~\E k \in 1..Len(self.security) :
                                Keys(other.security[i]) = Keys(self.security[k])})

C7_Witness ==
    /\ Done("merge") /\ Ret("merge").ok
    /\ \E i \in 1..Len(other.security), k \in 1..Len(self.security) :
          /\ Len(other.security[i]) = 2
          /\ Keys(other.security[i]) = Keys(self.security[k])
          /\ other.security[i][1][1] # self.security[k][1][1]
          /\ other.security[i][1][2] # self.security[k][2][2]
    /\ Len(Ret("merge").val.security) = Len(self.security) + 1
    /\ Len(other.security) = 2

---------------------------------------------------------------------------
(* C8 *)

\* C8: after a successful merge, at every path of both documents and for each
\* of the eight methods, the slot holds original's operation if original had
\* one, else incoming's if incoming had one, else nothing.
C8_Slots ==
    (Done("merge") /\ Ret("merge").ok) =>
        \A p \in PathKeys :
            Shared(p) =>
                \A m \in MethodSet :
                    slot(get(Ret("merge").val.paths.paths, p).item, m) =
                        IF slot(get(APaths, p).item, m) # None
                        THEN slot(get(APaths, p).item, m)
                        ELSE slot(get(BPaths, p).item, m)

C8_Witness ==
    /\ Done("merge") /\ Ret("merge").ok
    /\ \E p \in PathKeys :
          /\ Shared(p)
          /\ \E m1, m2, m3 \in MethodSet :
                LET a == get(APaths, p).item
                    b == get(BPaths, p).item
                    r == get(Ret("merge").val.paths.paths, p).item
                IN  /\ slot(a, m1) # None /\ slot(b, m1) # None
                    /\ slot(a, m1) # slot(b, m1) /\ slot(r, m1) = slot(a, m1)
                    /\ slot(a, m2) = None /\ slot(b, m2) # None
                    /\ slot(r, m2) = slot(b, m2)
                    /\ slot(a, m3) # None /\ slot(b, m3) = None

---------------------------------------------------------------------------
(* C9 *)

\* the order in which the traversals are to visit the method slots
CanonicalOrder ==
    <<"get", "put", "post", "delete", "options", "head", "patch", "trace">>

Position(m) == CHOOSE k \in 1..Len(CanonicalOrder) : CanonicalOrder[k] = m

\* r holds the occupied slots of pi, once each, in the canonical order, each
\* under its own method name
IsTraversal(r, pi) ==
    /\ \A k \in 1..Len(r) :
          /\ r[k][1] \in MethodSet
          /\ slot(pi, r[k][1]) = Some(r[k][2])
    /\ \A m \in MethodSet :
          slot(pi, m) # None => Cardinality({k \in 1..Len(r) : r[k][1] = m}) = 1
    /\ \A k, l \in 1..Len(r) : k < l => Position(r[k][1]) < Position(r[l][1])

Traversals == {"iter", "iter_mut", "into_iter"}

\* C9: iter(), iter_mut() and into_iter() of a path item each yield exactly
\* its occupied method slots, once each, in the order get, put, post, delete,
\* options, head, patch, trace, each with its own method name; the three
\* yield the same sequence.
C9_Traversal ==
    /\ \A t \in Traversals : Done(t) => IsTraversal(Ret(t), item)
    /\ \A t, u \in Traversals : (Done(t) /\ Done(u)) => Ret(t) = Ret(u)

C9_Witness ==
    /\ \A t \in Traversals : Done(t)
    /\ item.put # None /\ item.post # None /\ item.trace # None /\ item.get = None
    /\ Len(Ret("iter")) = 3
    /\ Ret("iter")[1][1] = "put" /\ Ret("into_iter")[3][1] = "trace"

---------------------------------------------------------------------------
(* C10 *)

\* every operation of every inline path item of d carries an operationId
AllHaveIds(d) ==
    \A n \in 1..Len(d.paths.paths) :
        LET e == d.paths.paths[n][2] IN
        ~IsRef(e) =>
            \A m \in MethodSet :
                slot(e.item, m) # None => slot(e.item, m)[1].operation_id # None

\* the places (path index, method position) of the operations of the inline
\* path items of self whose operationId is id
Matches ==
    {q \in (1..Len(APaths)) \X (1..Len(CanonicalOrder)) :
        /\ ~IsRef(APaths[q[1]][2])
        /\ slot(APaths[q[1]][2].item, CanonicalOrder[q[2]]) # None
        /\ slot(APaths[q[1]][2].item, CanonicalOrder[q[2]])[1].operation_id = Some(id)}

\* the first of them: paths in map order, then methods in canonical order
FirstMatch ==
    CHOOSE q \in Matches :
        \A r \in Matches : q[1] < r[1] \/ (q[1] = r[1] /\ q[2] <= r[2])

FirstMatchItem == APaths[FirstMatch[1]][2].item

FirstMatchOperation == slot(FirstMatchItem, CanonicalOrder[FirstMatch[2]])[1]

\* C10: in a document whose operations all carry an operationId,
\* get_operation(id) and get_operation_mut(id) return the first operation
\* whose operationId is id, paths taken in map order with the reference
\* entries skipped and methods in canonical order, and nothing when there is
\* none; both select the same operation.
C10_Lookup ==
    AllHaveIds(self) =>
        /\ Done("get_operation") =>
              Ret("get_operation") =
                  IF Matches = {} THEN Return(None)
                  ELSE Return(Some(<<FirstMatchOperation, FirstMatchItem>>))
        /\ Done("get_operation_mut") =>
              Ret("get_operation_mut") =
                  IF Matches = {} THEN Return(None)
                  ELSE Return(Some(FirstMatchOperation))

C10_Witness ==
    /\ AllHaveIds(self)
    /\ Done("get_operation") /\ Done("get_operation_mut")
    /\ APaths[1][1] = "/users"
    /\ \E q, r \in Matches : q[1] = 1 /\ r[1] = 2
    /\ Ret("get_operation").val # None
    /\ Ret("get_operation").val[1][1].summary = Some("/users")
    /\ Ret("get_operation_mut").val[1] = Ret("get_operation").val[1][1]

C10_WitnessSkipsReference ==
    /\ AllHaveIds(self)
    /\ Done("get_operation") /\ Done("get_operation_mut")
    /\ IsRef(APaths[1][2])
    /\ Cardinality(Matches) = 2
    /\ Ret("get_operation").val # None

=============================================================================
